---- MODULE Spec2Model ----
(***************************************************************************)
(* MetricsBuilder of pkg/otel/metrics/arrow/metrics.go as a state machine. *)
(*                                                                         *)
(* One builder instance `mb` is driven by its three public operations      *)
(* Append, Build and Release.  The collaborators whose code lives in       *)
(* other packages (the record builder, the optimizer, the related-data     *)
(* accumulators) are modelled by what the builder asks of them; every call *)
(* an operation makes on a collaborator is written, in order, to `calls`.  *)
(*                                                                         *)
(* Further specifications of this module drive two builders side by side   *)
(* (SpecTwo), a builder with schema statistics next to one without         *)
(* (SpecStats), the loop of Append over a batch longer than the id range   *)
(* (SpecWide), the file exporter factory (SpecExporters) and the trace     *)
(* receiver's Export (SpecReceiver).  Each specification moves its own     *)
(* variables and leaves the others at their idle value.                    *)
(***************************************************************************)
EXTENDS Integers, Sequences, FiniteSets, TLC

VARIABLES
    mb,        \* the MetricsBuilder struct and what it owns
    lastOp,    \* name of the operation that ran last ("New" after construction)
    lastErr,   \* error returned by the last operation (Nil when none)
    calls,     \* calls the last operation made on its collaborators, in order
    record,    \* record returned by the last operation (Null when it returned none)
    nrows,     \* number of metric rows handed to Append so far on the open builder
    two,       \* SpecTwo: two builders, the objects they point to, each one's twin run alone
    ab,        \* SpecStats: a builder with schema statistics and one without
    wide,      \* SpecWide: the loop of one Append, row by row
    ex,        \* SpecExporters: the file exporter factory and its registry
    rx         \* SpecReceiver: the trace receiver and what it called

builderVars == <<mb, lastOp, lastErr, calls, record, nrows>>

vars == <<mb, lastOp, lastErr, calls, record, nrows, two, ab, wide, ex, rx>>

\* Value of a variable that the running specification does not use.
Idle == <<>>

----------------------------------------------------------------------------
(* Bounds *)

\* Rows handed to Append over the life of one builder.
MaxTotalRows == 2

----------------------------------------------------------------------------
(* Values *)

\* A nullable column value: Null, or Some(x).
Null == <<>>
Some(x) == <<x>>

\* uint16 arithmetic of metricID.
Uint16 == 65536

\* Maximum delta set on the id builder.
IDMaxDelta == 1

\* Errors.  Nil is the nil error; Wrap is werror.Wrap.
Nil == <<>>
ErrBuilderAlreadyReleased == <<"ErrBuilderAlreadyReleased">>
ErrNewRecord == <<"ErrNewRecord">>
ErrAccumulator == <<"ErrAccumulator">>
ErrColumn == <<"ErrColumn">>
Wrap(err) == <<"werror">> \o err
\* errors.Is(err, target)
ErrIs(err, target) == Len(err) > 0 /\ SubSeq(err, Len(err), Len(err)) = target

\* pmetric.MetricType values; MetricTypeUnknown stands for any other value.
MetricTypeEmpty == 0
MetricTypeGauge == 1
MetricTypeSum == 2
MetricTypeHistogram == 3
MetricTypeExponentialHistogram == 4
MetricTypeSummary == 5
MetricTypeUnknown == 6

KnownTypes == {MetricTypeEmpty, MetricTypeGauge, MetricTypeSum, MetricTypeHistogram,
               MetricTypeExponentialHistogram, MetricTypeSummary}

\* pmetric.AggregationTemporality values.
AggregationTemporalityDelta == 1
AggregationTemporalityCumulative == 2

\* The column builder handles of the struct, by field name.
Handles == {"ib", "rb", "scb", "sschb", "mtb", "nb", "db", "ub", "atb", "imb"}

----------------------------------------------------------------------------
(* Inputs: pmetric.Metrics flattened in document order.  Strings are        *)
(* sequences of character codes, "" is <<>>.                                *)

Metric(type, name, desc, unit, temp, mono, ndp) ==
    [Type |-> type, Name |-> name, Description |-> desc, Unit |-> unit,
     AggregationTemporality |-> temp, IsMonotonic |-> mono, DataPoints |-> ndp]

GaugeMetric == Metric(MetricTypeGauge, <<1>>, <<>>, <<9>>, 0, FALSE, 2)
SumMetric == Metric(MetricTypeSum, <<2>>, <<8>>, <<>>, AggregationTemporalityCumulative, TRUE, 1)
HistogramMetric == Metric(MetricTypeHistogram, <<3>>, <<>>, <<>>, AggregationTemporalityDelta, FALSE, 1)
EHistogramMetric ==
    Metric(MetricTypeExponentialHistogram, <<4>>, <<8>>, <<9>>, AggregationTemporalityCumulative, FALSE, 1)
SummaryMetric == Metric(MetricTypeSummary, <<5>>, <<>>, <<9>>, 0, FALSE, 1)
EmptyMetric == Metric(MetricTypeEmpty, <<>>, <<>>, <<>>, 0, FALSE, 0)
UnknownMetric == Metric(MetricTypeUnknown, <<1>>, <<8>>, <<>>, AggregationTemporalityDelta, TRUE, 1)

MetricSamples == {GaugeMetric, SumMetric, HistogramMetric, EHistogramMetric,
                  SummaryMetric, EmptyMetric, UnknownMetric}

\* Resources and scopes, by the content of their attribute sets.
Resources == {1, 2}
Scopes == {1, 2}

InputRow(res, scope, m) == [Resource |-> res, Scope |-> scope, Metric |-> m]

\* Every metric kind under the first resource and scope, and a gauge under
\* another scope of that resource and under another resource.
InputRows ==
    {InputRow(1, 1, m) : m \in MetricSamples}
        \cup {InputRow(p[1], p[2], GaugeMetric) :
                 p \in {q \in Resources \X Scopes : q[2] >= q[1]}}

\* All sequences over S of length n.
SeqsOfLen(S, n) == [1..n -> S]

----------------------------------------------------------------------------
(* MetricsOptimizer.Optimize *)

\* A resource and a scope whose group id is the empty string: the ids are
\* plain strings of the FlatMetric, and nothing in the builder keeps the empty
\* one out.  Spec hands the builder no such group; SpecAnyIDs does.
EmptyIDResource == 0
EmptyIDScope == 0

\* Group ids of a resource and of a scope, by their content.
ResourceID(res) == IF res = EmptyIDResource THEN <<>> ELSE <<100, res>>
ScopeID(scope) == IF scope = EmptyIDScope THEN <<>> ELSE <<200, scope>>

FlatMetric(row) ==
    [ResourceMetricsID |-> ResourceID(row.Resource),
     Resource |-> row.Resource,
     ResourceSchemaUrl |-> IF row.Resource = 1 THEN <<>> ELSE <<7>>,
     ScopeMetricsID |-> ScopeID(row.Scope),
     Scope |-> row.Scope,
     ScopeSchemaUrl |-> IF row.Scope = 1 THEN <<>> ELSE <<7>>,
     Metric |-> row.Metric]

RECURSIVE LexLess(_, _)
LexLess(a, b) ==
    IF Len(b) = 0 THEN FALSE
    ELSE IF Len(a) = 0 THEN TRUE
    ELSE IF Head(a) # Head(b) THEN Head(a) < Head(b)
    ELSE LexLess(Tail(a), Tail(b))

\* Sort key: resource group, scope group, metric name.
KeyLess(x, y) ==
    \/ LexLess(x.ResourceMetricsID, y.ResourceMetricsID)
    \/ /\ x.ResourceMetricsID = y.ResourceMetricsID
       /\ \/ LexLess(x.ScopeMetricsID, y.ScopeMetricsID)
          \/ /\ x.ScopeMetricsID = y.ScopeMetricsID
             /\ LexLess(x.Metric.Name, y.Metric.Name)

\* Stable insertion of x into the sorted sequence s: after every element
\* that is not greater than x.
RECURSIVE Insert(_, _)
Insert(s, x) ==
    IF Len(s) = 0 THEN <<x>>
    ELSE IF KeyLess(x, Head(s)) THEN <<x>> \o s
    ELSE <<Head(s)>> \o Insert(Tail(s), x)

RECURSIVE SortFlat(_, _)
SortFlat(sorted, rest) ==
    IF Len(rest) = 0 THEN sorted
    ELSE SortFlat(Insert(sorted, FlatMetric(Head(rest))), Tail(rest))

Optimize(metrics) == SortFlat(<<>>, metrics)

\* cfg.Metric.Sorter: the sort above, or the input order kept.
SortedMetrics == "SortedMetrics"
UnsortedMetrics == "UnsortedMetrics"
Sorters == {SortedMetrics, UnsortedMetrics}

\* NewMetricsOptimizer(sorter), and Optimize of the optimizer so made.
NewMetricsOptimizer(sorter) == [sorter |-> sorter]
OptimizeWith(optimizer, metrics) ==
    IF optimizer.sorter = UnsortedMetrics
    THEN [i \in 1..Len(metrics) |-> FlatMetric(metrics[i])]
    ELSE Optimize(metrics)

----------------------------------------------------------------------------
(* The builder and what it owns *)

NoColumns == [h \in Handles |-> <<>>]

\* NewRelatedData: empty accumulators, not yet released.
NewRelatedData ==
    [resource |-> <<>>, scope |-> <<>>,
     numberDP |-> <<>>, summaryDP |-> <<>>, histogramDP |-> <<>>, ehistogramDP |-> <<>>,
     releases |-> 0]

\* builder.RecordBuilderExt: the rows buffered in each column, and how often
\* it was released.
NewRecordBuilderExt == [cols |-> NoColumns, releases |-> 0]

\* MetricsBuilder.init: every handle is taken anew from the record builder,
\* and the id builder gets its maximum delta.
init(b) ==
    [b EXCEPT !.live = [h \in Handles |-> TRUE],
              !.maxDelta = IDMaxDelta]

\* The sorter the mutant below gives to a builder without an analyzer.
DefaultSorter == UnsortedMetrics

\* What NewMetricsBuilder puts together, given the optimizer of the branch
\* of a builder without schema statistics.
MetricsBuilderOf(rBuilder, statsEnabled, onOptimizer, offOptimizer) ==
    init([released |-> FALSE,
          builder |-> rBuilder,
          live |-> [h \in Handles |-> FALSE],
          maxDelta |-> 0,
          optimizer |-> IF statsEnabled THEN onOptimizer ELSE offOptimizer,
          analyzer |-> IF statsEnabled THEN Some("MetricsAnalyzer") ELSE Null,
          relatedData |-> NewRelatedData])

\* Mutant of NewMetricsBuilderWith: without schema statistics the optimizer
\* does not get the configured sorter.
NewMetricsBuilderOwnSorter(rBuilder, sorter, statsEnabled) ==
    MetricsBuilderOf(rBuilder, statsEnabled,
                     NewMetricsOptimizer(sorter), NewMetricsOptimizer(DefaultSorter))

\* NewMetricsBuilder(rBuilder, cfg, stats) with cfg.Metric.Sorter = sorter and
\* stats.SchemaStatsEnabled = statsEnabled: both branches of lines 83-88 make
\* the optimizer from cfg.Metric.Sorter, only the first makes an analyzer.
NewMetricsBuilderWith(rBuilder, sorter, statsEnabled) ==
    MetricsBuilderOf(rBuilder, statsEnabled,
                     NewMetricsOptimizer(sorter), NewMetricsOptimizer(sorter))

\* The builder of Spec: sorted metrics, no schema statistics.
NewMetricsBuilder == NewMetricsBuilderWith(NewRecordBuilderExt, SortedMetrics, FALSE)

Event(op, row, val) == [op |-> op, row |-> row, val |-> val]

----------------------------------------------------------------------------
(* MetricsBuilder.Append.  st is the builder together with the locals of    *)
(* the call: metricID, resMetricsID, scopeMetricsID, resID, scopeID, err,   *)
(* and the calls made so far.  fail = <<k, stage>> makes the collaborator   *)
(* called at `stage` of row k return an error; <<>> makes none fail.  A     *)
(* failed accumulator call is logged without a returned id, a failed column *)
(* append as "rb.error" or "scb.error".                                     *)

FailStages == {"Resource.Accumulator", "rb", "scope.Accumulator", "scb"}

Fails(n) == {<<>>} \cup {<<k, stage>> : k \in 1..n, stage \in FailStages}

Emit(st, e) == [st EXCEPT !.calls = Append(@, e)]

\* One append on a column builder through handle h.  A handle that no longer
\* refers to a column of the record builder writes to a detached builder.
ColAppend(st, h, row, v) ==
    LET s1 == Emit(st, Event(h, row, v))
    IN  IF st.mb.live[h]
        THEN [s1 EXCEPT !.mb.builder.cols[h] = Append(@, v)]
        ELSE s1

\* AppendNonEmpty of a string builder: null for the empty string.
AppendNonEmpty(st, h, row, str) ==
    ColAppend(st, h, row, IF str = <<>> THEN Null ELSE Some(str))

\* Lines 173-176: the row takes the current metricID, which then advances.
IDStep(st, row) ==
    LET ID == st.metricID
        s1 == ColAppend(st, "ib", row, Some(ID))
    IN  [s1 EXCEPT !.ID = ID, !.metricID = (ID + 1) % Uint16]

\* Lines 180-188: when the resource group changed, ask the resource attribute
\* accumulator for an id; then write resID to the resource column.
ResourceBranch(st, metric, row, fail, changed) ==
    LET newID == Len(st.mb.relatedData.resource)
        s1 == IF ~changed THEN st
              ELSE IF fail = <<row, "Resource.Accumulator">>
              THEN [Emit(st, Event("Resource.Accumulator", row, <<metric.Resource>>))
                      EXCEPT !.resMetricsID = metric.ResourceMetricsID,
                             !.err = Wrap(ErrAccumulator)]
              ELSE [Emit(st, Event("Resource.Accumulator", row, <<metric.Resource, newID>>))
                      EXCEPT !.resMetricsID = metric.ResourceMetricsID,
                             !.resID = newID,
                             !.mb.relatedData.resource = Append(@, metric.Resource)]
    IN  IF s1.err # Nil THEN s1
        ELSE IF fail = <<row, "rb">>
        THEN [Emit(s1, Event("rb.error", row, <<>>)) EXCEPT !.err = Wrap(ErrColumn)]
        ELSE ColAppend(s1, "rb", row, Some(s1.resID))

\* Mutants of ResourceStep: the accumulator is asked on every row; the
\* accumulator is asked only while no group id was seen yet.
ResourceStepAlwaysAsks(st, metric, row, fail) ==
    ResourceBranch(st, metric, row, fail, TRUE)
ResourceStepAsksOnce(st, metric, row, fail) ==
    ResourceBranch(st, metric, row, fail, st.resMetricsID = <<>>)

\* Lines 178-188: the resource group changed when the row's
\* ResourceMetricsID differs from the one seen last.
ResourceStep(st, metric, row, fail) ==
    ResourceBranch(st, metric, row, fail, st.resMetricsID # metric.ResourceMetricsID)

\* Lines 190-201: scope group boundary, scope column and scope schema url.
ScopeStep(st, metric, row, fail) ==
    LET changed == st.scopeMetricsID # metric.ScopeMetricsID
        newID == Len(st.mb.relatedData.scope)
        s1 == IF ~changed THEN st
              ELSE IF fail = <<row, "scope.Accumulator">>
              THEN [Emit(st, Event("scope.Accumulator", row, <<metric.Scope>>))
                      EXCEPT !.scopeMetricsID = metric.ScopeMetricsID,
                             !.err = Wrap(ErrAccumulator)]
              ELSE [Emit(st, Event("scope.Accumulator", row, <<metric.Scope, newID>>))
                      EXCEPT !.scopeMetricsID = metric.ScopeMetricsID,
                             !.scopeID = newID,
                             !.mb.relatedData.scope = Append(@, metric.Scope)]
    IN  IF s1.err # Nil THEN s1
        ELSE IF fail = <<row, "scb">>
        THEN [Emit(s1, Event("scb.error", row, <<>>)) EXCEPT !.err = Wrap(ErrColumn)]
        ELSE AppendNonEmpty(ColAppend(s1, "scb", row, Some(s1.scopeID)),
                            "sschb", row, metric.ScopeSchemaUrl)

\* Lines 203-208: metric type, name, description and unit.
ScalarStep(st, metric, row) ==
    LET m == metric.Metric
        s1 == ColAppend(st, "mtb", row, Some(m.Type))
        s2 == AppendNonEmpty(s1, "nb", row, m.Name)
        s3 == AppendNonEmpty(s2, "db", row, m.Description)
    IN  AppendNonEmpty(s3, "ub", row, m.Unit)

\* One Accumulator().Append(ID, ...) on a data point table.
Accumulate(st, table, row, entry) ==
    [Emit(st, Event(table, row, entry)) EXCEPT !.mb.relatedData[table] = Append(@, entry)]

\* The loop over the data points of a gauge or a sum: one call per data point.
RECURSIVE NumberDPs(_, _, _, _, _)
NumberDPs(st, row, ID, i, n) ==
    IF i >= n THEN st
    ELSE NumberDPs(Accumulate(st, "numberDP", row, <<ID, i>>), row, ID, i + 1, n)

\* Lines 210-250: the switch on the metric type, for the metric m of the row
\* that got the id ID.
KindSwitch(st, m, row, ID) ==
    CASE m.Type = MetricTypeGauge ->
           NumberDPs(ColAppend(ColAppend(st, "atb", row, Null), "imb", row, Null),
                     row, ID, 0, m.DataPoints)
      [] m.Type = MetricTypeSum ->
           NumberDPs(ColAppend(ColAppend(st, "atb", row, Some(m.AggregationTemporality)),
                               "imb", row, Some(m.IsMonotonic)),
                     row, ID, 0, m.DataPoints)
      [] m.Type = MetricTypeSummary ->
           Accumulate(ColAppend(ColAppend(st, "atb", row, Null), "imb", row, Null),
                      "summaryDP", row, <<ID, m.DataPoints>>)
      [] m.Type = MetricTypeHistogram ->
           Accumulate(ColAppend(ColAppend(st, "atb", row, Some(m.AggregationTemporality)),
                                "imb", row, Null),
                      "histogramDP", row, <<ID, m.DataPoints>>)
      [] m.Type = MetricTypeExponentialHistogram ->
           Accumulate(ColAppend(ColAppend(st, "atb", row, Some(m.AggregationTemporality)),
                                "imb", row, Null),
                      "ehistogramDP", row, <<ID, m.DataPoints>>)
      [] m.Type = MetricTypeEmpty ->
           ColAppend(ColAppend(st, "atb", row, Null), "imb", row, Null)
      [] OTHER -> st

\* Mutants of KindStep: the data points are keyed by the id after the
\* increment; a histogram is handled by the case of a sum.
KindStepNextID(st, metric, row) == KindSwitch(st, metric.Metric, row, st.metricID)
KindStepHistogramAsSum(st, metric, row) ==
    KindSwitch(st,
               [metric.Metric EXCEPT !.Type = IF @ = MetricTypeHistogram
                                               THEN MetricTypeSum ELSE @],
               row, st.ID)

\* Lines 210-250 in the loop body: ID is the id appended for this row.
KindStep(st, metric, row) == KindSwitch(st, metric.Metric, row, st.ID)

\* Lines 172-251: the body of the loop for one metric.
AppendRow(st, metric, row, fail) ==
    LET s0 == Emit(st, Event("range", row, metric))
        s1 == IDStep(s0, row)
        s2 == ResourceStep(s1, metric, row, fail)
        s3 == IF s2.err # Nil THEN s2 ELSE ScopeStep(s2, metric, row, fail)
    IN  IF s3.err # Nil THEN s3
        ELSE KindStep(ScalarStep(s3, metric, row), metric, row)

\* Mutant of AppendLoop: the loop goes on to the next metric after an error.
RECURSIVE AppendLoopContinues(_, _, _, _)
AppendLoopContinues(st, optimized, row, fail) ==
    IF row > Len(optimized) THEN st
    ELSE AppendLoopContinues(AppendRow(st, optimized[row], row, fail),
                             optimized, row + 1, fail)

\* The loop: it ends at the first error.
RECURSIVE AppendLoop(_, _, _, _)
AppendLoop(st, optimized, row, fail) ==
    IF row > Len(optimized) \/ st.err # Nil THEN st
    ELSE AppendLoop(AppendRow(st, optimized[row], row, fail), optimized, row + 1, fail)

\* Lines 159-252: Append on a builder that passed the released check.
AppendOpen(b, metrics, fail) ==
    LET optimized == OptimizeWith(b.optimizer, metrics)
        analysis == IF b.analyzer # Null
                    THEN <<Event("Analyze", 0, optimized), Event("ShowStats", 0, <<>>)>>
                    ELSE <<>>
        st0 == [mb |-> b, metricID |-> 0, ID |-> 0,
                resMetricsID |-> <<>>, scopeMetricsID |-> <<>>,
                resID |-> 0, scopeID |-> 0, err |-> Nil,
                calls |-> <<Event("Optimize", 0, <<>>)>> \o analysis
                            \o <<Event("Reserve", 0, <<Len(optimized)>>)>>]
        st == AppendLoop(st0, optimized, 1, fail)
    IN  [mb |-> st.mb, err |-> st.err, calls |-> st.calls]

\* Mutant of AppendCall: no released check.
AppendCallUnguarded(b, metrics, fail) == AppendOpen(b, metrics, fail)

\* Lines 154-253: the whole call; its result is the builder, the error and
\* the calls made.
AppendCall(b, metrics, fail) ==
    IF b.released
    THEN [mb |-> b, err |-> Wrap(ErrBuilderAlreadyReleased), calls |-> <<>>]
    ELSE AppendOpen(b, metrics, fail)

----------------------------------------------------------------------------
(* MetricsBuilder.Build *)

\* RecordBuilderExt.NewRecord.  On success the buffered columns become the
\* record and the column builders start empty again.  On failure the rows are
\* lost and the record builder replaces its column builders, so the handles
\* taken earlier no longer refer to them.
NewRecord(b, ok) ==
    IF ok
    THEN [mb |-> [b EXCEPT !.builder.cols = NoColumns],
          record |-> Some(b.builder.cols), err |-> Nil]
    ELSE [mb |-> [b EXCEPT !.builder.cols = NoColumns,
                           !.live = [h \in Handles |-> FALSE],
                           !.maxDelta = 0],
          record |-> Null, err |-> ErrNewRecord]

\* Mutant of BuildCall: a failed NewRecord is returned without init.
BuildCallNoInit(b, ok) ==
    IF b.released
    THEN [mb |-> b, record |-> Null, err |-> Wrap(ErrBuilderAlreadyReleased), calls |-> <<>>]
    ELSE LET r == NewRecord(b, ok)
         IN  [mb |-> r.mb, record |-> r.record, err |-> r.err,
              calls |-> <<Event("NewRecord", 0, r.err)>>]

\* Lines 137-151.  init never returns an error, so err stays NewRecord's.
BuildCall(b, ok) ==
    IF b.released
    THEN [mb |-> b, record |-> Null, err |-> Wrap(ErrBuilderAlreadyReleased), calls |-> <<>>]
    ELSE LET r == NewRecord(b, ok)
         IN  IF r.err # Nil
             THEN [mb |-> init(r.mb), record |-> r.record, err |-> r.err,
                   calls |-> <<Event("NewRecord", 0, r.err), Event("init", 0, <<>>)>>]
             ELSE [mb |-> r.mb, record |-> r.record, err |-> r.err,
                   calls |-> <<Event("NewRecord", 0, r.err)>>]

----------------------------------------------------------------------------
(* MetricsBuilder.Release *)

\* RecordBuilderExt.Release and RelatedData.Release free what they hold.
ReleaseRecordBuilder(rb) == [cols |-> NoColumns, releases |-> rb.releases + 1]
ReleaseRelatedData(rd) == [NewRelatedData EXCEPT !.releases = rd.releases + 1]

\* What Release does to a builder that is not released yet.
ReleaseOpen(b, flag) ==
    [mb |-> [b EXCEPT !.builder = ReleaseRecordBuilder(@),
                      !.released = flag,
                      !.relatedData = ReleaseRelatedData(@)],
     calls |-> <<Event("builder.Release", 0, <<>>),
                 Event("relatedData.Release", 0, <<>>)>>]

\* Mutants of ReleaseCall: no released check; the flag is not set.
ReleaseCallUnguarded(b) == ReleaseOpen(b, TRUE)
ReleaseCallKeepsOpen(b) ==
    IF ~b.released THEN ReleaseOpen(b, b.released) ELSE [mb |-> b, calls |-> <<>>]

\* Lines 256-263.
ReleaseCall(b) ==
    IF ~b.released THEN ReleaseOpen(b, TRUE) ELSE [mb |-> b, calls |-> <<>>]

----------------------------------------------------------------------------
(* The state machine *)

\* The builder right after NewMetricsBuilder.
BuilderInit ==
    /\ mb = NewMetricsBuilder
    /\ lastOp = "New"
    /\ lastErr = Nil
    /\ calls = <<>>
    /\ record = Null
    /\ nrows = 0

\* The builder variables in a specification that does not use them.
BuilderIdle ==
    /\ mb = Idle /\ lastOp = Idle /\ lastErr = Idle
    /\ calls = Idle /\ record = Idle /\ nrows = Idle

Init ==
    /\ BuilderInit
    /\ two = Idle /\ ab = Idle /\ wide = Idle /\ ex = Idle /\ rx = Idle

\* b.Append(metrics) with any batch that fits the row budget; a released
\* builder is offered the empty batch and every batch of one row.
BuilderAppend ==
    \E n \in 0..(IF mb.released THEN 1 ELSE MaxTotalRows - nrows) :
      \E metrics \in SeqsOfLen(InputRows, n),
         fail \in (IF mb.released THEN {<<>>} ELSE Fails(n)) :
        LET r == AppendCall(mb, metrics, fail)
        IN  /\ mb' = r.mb
            /\ lastOp' = "Append"
            /\ lastErr' = r.err
            /\ calls' = r.calls
            /\ record' = Null
            /\ nrows' = IF mb.released THEN nrows ELSE nrows + n
            /\ UNCHANGED <<two, ab, wide, ex, rx>>

\* b.Build(); NewRecord succeeds or fails.
Build ==
    \E ok \in BOOLEAN :
        LET r == BuildCall(mb, ok)
        IN  /\ mb' = r.mb
            /\ lastOp' = "Build"
            /\ lastErr' = r.err
            /\ calls' = r.calls
            /\ record' = r.record
            /\ UNCHANGED <<nrows, two, ab, wide, ex, rx>>

\* b.Release()
Release ==
    LET r == ReleaseCall(mb)
    IN  /\ mb' = r.mb
        /\ lastOp' = "Release"
        /\ lastErr' = Nil
        /\ calls' = r.calls
        /\ record' = Null
        /\ UNCHANGED <<nrows, two, ab, wide, ex, rx>>

Next == BuilderAppend \/ Build \/ Release

Spec == Init /\ [][Next]_vars

----------------------------------------------------------------------------
(* Reading the calls of the last operation *)

CallIdx == 1..Len(calls)

\* Positions of the calls `op` made while row `row` was processed.
CallsAt(op, row) == {i \in CallIdx : calls[i].op = op /\ calls[i].row = row}

\* Rows the loop of the last Append started, and those among them that got
\* past the resource and scope steps.
RangeRows == {calls[i].row : i \in {j \in CallIdx : calls[j].op = "range"}}
EmittedRows == {row \in RangeRows : CallsAt("mtb", row) # {}}

\* The flat metric the loop took for a row, and the id appended for it.
MetricAt(row) == calls[CHOOSE i \in CallsAt("range", row) : TRUE].val
IDAt(row) == calls[CHOOSE i \in CallsAt("ib", row) : TRUE].val[1]

\* The value written to the column of handle h for a row.
WrittenAt(h, row) == calls[CHOOSE i \in CallsAt(h, row) : TRUE].val

DPTables == {"numberDP", "summaryDP", "histogramDP", "ehistogramDP"}

\* Positions of the data point accumulator calls of a row.
DPCallsAt(row) == {i \in CallIdx : calls[i].op \in DPTables /\ calls[i].row = row}

IsReleasedErr(err) == ErrIs(err, ErrBuilderAlreadyReleased)

----------------------------------------------------------------------------
(* Claims *)

\* C1: after Release, every Append and every Build returns an error wrapping
\* ErrBuilderAlreadyReleased and changes nothing: the builder and all it owns
\* stay as they were, and no call is made on the optimizer, on a column
\* builder, on an accumulator or on the record builder.
C1_ReleasedRejects ==
    [][(mb.released /\ lastOp' \in {"Append", "Build"})
         => /\ IsReleasedErr(lastErr')
            /\ mb' = mb
            /\ calls' = <<>>
            /\ record' = Null]_vars

C1_Witness ==
    /\ mb.released
    /\ lastOp = "Append"
    /\ IsReleasedErr(lastErr)
    /\ nrows > 0

\* The ids of a column are 0, 1, 2, ...: they start at 0, increase strictly,
\* and two consecutive ids differ by at most maxDelta.
IdsFromZero(ids, maxDelta) ==
    /\ Len(ids) > 0 => ids[1] = Some(0)
    /\ \A i \in 1..(Len(ids) - 1) :
         /\ ids[i + 1][1] > ids[i][1]
         /\ ids[i + 1][1] - ids[i][1] <= maxDelta

\* C2: the id column of every record built on an open builder starts at 0,
\* is strictly increasing and has no delta above the configured maximum,
\* whatever number of Append calls fed the batch.
C2_IdsStrictlyIncreasing ==
    (lastOp = "Build" /\ record # Null) => IdsFromZero(record[1]["ib"], IDMaxDelta)

\* C3: a row of an unknown metric type gets a null in the aggregation
\* temporality column and a null in the is-monotonic column and no data
\* point, the call returns no error, and every one of the ten columns got
\* exactly one append per emitted row.
C3_UnknownKindNullFilled ==
    lastOp = "Append" =>
      \A row \in EmittedRows :
        /\ MetricAt(row).Metric.Type \notin KnownTypes =>
             /\ Cardinality(CallsAt("atb", row)) = 1 /\ WrittenAt("atb", row) = Null
             /\ Cardinality(CallsAt("imb", row)) = 1 /\ WrittenAt("imb", row) = Null
             /\ DPCallsAt(row) = {}
        /\ \A h \in Handles : Cardinality(CallsAt(h, row)) = 1

\* C4: the record builder and the related data are each released exactly
\* once, by the first Release; every later Release makes no call and changes
\* nothing.
C4_ReleasedExactlyOnce ==
    /\ [](/\ mb.builder.releases = (IF mb.released THEN 1 ELSE 0)
          /\ mb.relatedData.releases = (IF mb.released THEN 1 ELSE 0))
    /\ [][(mb.released /\ lastOp' = "Release") => (mb' = mb /\ calls' = <<>>)]_vars

C4_Witness ==
    /\ mb.released
    /\ lastOp = "Release"
    /\ calls = <<>>
    /\ mb.builder.releases = 1
    /\ mb.relatedData.releases = 1

\* C5: the builder starts open; Append and Build, failing or not, never
\* change the released flag; Release leaves the builder released; a released
\* builder never becomes open again.
C5_Lifecycle ==
    /\ [](lastOp = "New" => ~mb.released)
    /\ [][/\ lastOp' \in {"Append", "Build"} => mb'.released = mb.released
          /\ lastOp' = "Release" => mb'.released
          /\ mb.released => mb'.released]_vars

C5_Witness ==
    /\ ~mb.released
    /\ lastOp = "Append"
    /\ lastErr = Nil
    /\ nrows = MaxTotalRows
    /\ Len(mb.builder.cols["ib"]) < nrows

\* C6: every parent id passed to a data point accumulator was appended to
\* the id column earlier in the same call, and is an id of the batch being
\* built.
C6_ParentIdsInBatch ==
    lastOp = "Append" =>
      \A i \in CallIdx :
        calls[i].op \in DPTables =>
          /\ \E j \in 1..(i - 1) :
               /\ calls[j].op = "ib"
               /\ calls[j].row = calls[i].row
               /\ calls[j].val = Some(calls[i].val[1])
          /\ \E k \in 1..Len(mb.builder.cols["ib"]) :
               mb.builder.cols["ib"][k] = Some(calls[i].val[1])

C6_Witness ==
    /\ lastOp = "Append"
    /\ \E i \in CallIdx : calls[i].op \in DPTables /\ calls[i].val[1] >= 1

\* The accumulator calls of the last Append that returned `id`.
AsksReturning(acc, id) ==
    {i \in CallIdx : /\ calls[i].op = acc
                     /\ Len(calls[i].val) = 2
                     /\ calls[i].val[2] = id}

\* Two rows emitted one after the other with equal resource and scope content.
SameGroupPair(row) ==
    /\ row \in EmittedRows
    /\ row + 1 \in EmittedRows
    /\ MetricAt(row).Resource = MetricAt(row + 1).Resource
    /\ MetricAt(row).Scope = MetricAt(row + 1).Scope

\* The id written to column h for both rows of the pair is the same one, it
\* was returned by exactly one call of accumulator acc, made for this content
\* (attrs) no later than the first row, and the second row asks nothing.
OneIdForPair(acc, h, row, attrs) ==
    /\ Cardinality(CallsAt(h, row)) = 1
    /\ Cardinality(CallsAt(h, row + 1)) = 1
    /\ WrittenAt(h, row) = WrittenAt(h, row + 1)
    /\ CallsAt(acc, row + 1) = {}
    /\ LET asks == AsksReturning(acc, WrittenAt(h, row)[1])
       IN  /\ Cardinality(asks) = 1
           /\ \A i \in asks : calls[i].row <= row /\ calls[i].val[1] = attrs

\* C7: two rows emitted consecutively with identical resource and scope
\* content cause one request to the resource accumulator and one to the scope
\* accumulator, and both rows write that resource id and that scope id.
C7_SharedGroupOneId ==
    lastOp = "Append" =>
      \A row \in RangeRows :
        SameGroupPair(row) =>
          /\ OneIdForPair("Resource.Accumulator", "rb", row, MetricAt(row).Resource)
          /\ OneIdForPair("scope.Accumulator", "scb", row, MetricAt(row).Scope)

C7_Witness ==
    /\ lastOp = "Append"
    /\ \E row \in RangeRows : SameGroupPair(row)

\* Two rows emitted one after the other whose resource content differs.
DifferentResourcePair(row) ==
    /\ row \in EmittedRows
    /\ row + 1 \in EmittedRows
    /\ MetricAt(row).Resource # MetricAt(row + 1).Resource

\* C8: two rows emitted consecutively with differing resource content each
\* have the resource accumulator asked for their content, and they write two
\* distinct resource ids.
C8_DifferentResourceDistinctIds ==
    lastOp = "Append" =>
      \A row \in RangeRows :
        DifferentResourcePair(row) =>
          /\ \A r \in {row, row + 1} :
               /\ Cardinality(CallsAt("rb", r)) = 1
               /\ \E i \in AsksReturning("Resource.Accumulator", WrittenAt("rb", r)[1]) :
                    calls[i].row <= r /\ calls[i].val[1] = MetricAt(r).Resource
          /\ CallsAt("Resource.Accumulator", row + 1) # {}
          /\ WrittenAt("rb", row) # WrittenAt("rb", row + 1)

C8_Witness ==
    /\ lastOp = "Append"
    /\ \E row \in RangeRows : DifferentResourcePair(row)

\* What Append is to write to the two kind-specific columns for a metric of a
\* known type, and the table its data points go to ("" for none).
ExpectedTemporality(m) ==
    IF m.Type \in {MetricTypeSum, MetricTypeHistogram, MetricTypeExponentialHistogram}
    THEN Some(m.AggregationTemporality) ELSE Null
ExpectedMonotonic(m) ==
    IF m.Type = MetricTypeSum THEN Some(m.IsMonotonic) ELSE Null
ExpectedTable(m) ==
    CASE m.Type \in {MetricTypeGauge, MetricTypeSum} -> "numberDP"
      [] m.Type = MetricTypeSummary -> "summaryDP"
      [] m.Type = MetricTypeHistogram -> "histogramDP"
      [] m.Type = MetricTypeExponentialHistogram -> "ehistogramDP"
      [] OTHER -> ""
\* The entries the row's table is to receive, in order.
ExpectedEntries(m, id) ==
    CASE m.Type \in {MetricTypeGauge, MetricTypeSum} ->
           [i \in 1..m.DataPoints |-> <<id, i - 1>>]
      [] m.Type = MetricTypeEmpty -> <<>>
      [] OTHER -> << <<id, m.DataPoints>> >>

\* The entries a row passed to the data point tables, in call order.
RECURSIVE EntriesFrom(_, _)
EntriesFrom(i, row) ==
    IF i > Len(calls) THEN <<>>
    ELSE IF calls[i].op \in DPTables /\ calls[i].row = row
         THEN <<calls[i].val>> \o EntriesFrom(i + 1, row)
         ELSE EntriesFrom(i + 1, row)

\* C9: for every emitted row of a known metric type the temporality and
\* monotonic columns get the values of the row's kind (real or null), and the
\* row's data points go to the one table of its kind, keyed by the row's id.
C9_KindColumns ==
    lastOp = "Append" =>
      \A row \in EmittedRows :
        LET m == MetricAt(row).Metric
        IN  m.Type \in KnownTypes =>
              /\ Cardinality(CallsAt("atb", row)) = 1
              /\ WrittenAt("atb", row) = ExpectedTemporality(m)
              /\ Cardinality(CallsAt("imb", row)) = 1
              /\ WrittenAt("imb", row) = ExpectedMonotonic(m)
              /\ \A i \in DPCallsAt(row) : calls[i].op = ExpectedTable(m)
              /\ EntriesFrom(1, row) = ExpectedEntries(m, IDAt(row))

C9_Witness ==
    /\ lastOp = "Append"
    /\ \E row \in EmittedRows :
         /\ MetricAt(row).Metric.Type = MetricTypeHistogram
         /\ IDAt(row) = 1

\* A Build that failed on an open builder.
BuildFailed == lastOp = "Build" /\ lastErr # Nil /\ ~IsReleasedErr(lastErr)

\* C10: after a Build whose NewRecord failed, every column builder handle is
\* live again, the id builder has maximum delta 1, the error returned is not
\* nil, and the builder is open: the next Append or Build is not rejected with
\* ErrBuilderAlreadyReleased, and every id the next Append appends lands in
\* the id column.
C10_BuildFailureSelfHeals ==
    /\ [](BuildFailed =>
            /\ \A h \in Handles : mb.live[h]
            /\ mb.maxDelta = IDMaxDelta
            /\ ~mb.released
            /\ \E i \in CallIdx : calls[i].op = "init")
    /\ [][(BuildFailed /\ lastOp' \in {"Append", "Build"}) =>
            /\ ~IsReleasedErr(lastErr')
            /\ lastOp' = "Append" =>
                 Len(mb'.builder.cols["ib"]) =
                   Cardinality({i \in 1..Len(calls') : calls'[i].op = "ib"})]_vars

C10_Witness ==
    /\ BuildFailed
    /\ nrows > 0
    /\ \A h \in Handles : mb.live[h]


----------------------------------------------------------------------------
\* Calls of the last Append that returned an error: an accumulator call that
\* gave no id back, or a failed append on the resource or scope column.
FailedCalls ==
    {i \in CallIdx :
        \/ calls[i].op \in {"rb.error", "scb.error"}
        \/ /\ calls[i].op \in {"Resource.Accumulator", "scope.Accumulator"}
           /\ Len(calls[i].val) = 1}

\* Columns appended after the resource step, and after the scope step.
AfterResource == {"scb", "sschb", "mtb", "nb", "db", "ub", "atb", "imb"}
AfterScope == {"sschb", "mtb", "nb", "db", "ub", "atb", "imb"}

\* C11: when, at row k, the resource accumulator, the scope accumulator, the
\* resource column append or the scope column append returns an error, Append
\* returns a non-nil wrapped error at once: the failed call is the last call
\* of the operation, so no later row is started and no further column or data
\* point of row k is appended, and the error returned is that error wrapped,
\* never nil.
C11_FirstErrorReturned ==
    lastOp = "Append" =>
        \A i \in FailedCalls :
            LET k == calls[i].row
                stage == calls[i].op
            IN  /\ i = Len(calls)
                /\ lastErr # Nil
                /\ Head(lastErr) = "werror"
                /\ ErrIs(lastErr, IF stage \in {"rb.error", "scb.error"}
                                   THEN ErrColumn ELSE ErrAccumulator)
                /\ \A row \in RangeRows : row <= k
                /\ DPCallsAt(k) = {}
                /\ \A h \in AfterScope : CallsAt(h, k) = {}
                /\ stage \in {"Resource.Accumulator", "rb.error"}
                      => /\ CallsAt("rb", k) = {}
                         /\ \A h \in AfterResource : CallsAt(h, k) = {}
                         /\ CallsAt("scope.Accumulator", k) = {}
                /\ stage = "scope.Accumulator" => CallsAt("scb", k) = {}

\* The resource accumulator failed at the first of two rows.
C11_Witness ==
    /\ lastOp = "Append"
    /\ lastErr # Nil
    /\ \E i \in FailedCalls : calls[i].row = 1 /\ calls[i].op = "Resource.Accumulator"
    /\ \E i \in CallIdx : calls[i].op = "Reserve" /\ calls[i].val = <<2>>

----------------------------------------------------------------------------
(* Two builders (SpecTwo).  A MetricsBuilder holds pointers to its record   *)
(* builder and to its related data; two.objs holds the objects pointed to,  *)
(* by address.  Each operation of builder i runs on what its pointers reach *)
(* and writes the outcome back there; next to it a twin of builder i, which *)
(* owns its objects by value and never meets the other builder, is given    *)
(* the same calls.  The calls of the two builders interleave call by call:  *)
(* inside a call a builder touches nothing but what its own pointers reach. *)

\* Rows each of the two builders is handed over its life.
MaxPairRows == 2

PairRows == {InputRow(1, 1, GaugeMetric), InputRow(2, 2, SumMetric)}

Instances == {1, 2}

\* Outcome of one call: the operation, its error, its calls and its record.
Result(op, err, cs, rec) == [op |-> op, err |-> err, calls |-> cs, record |-> rec]
NoResult == Result("New", Nil, <<>>, Null)

\* The struct with what its pointers reach put in place of the pointers, and
\* the objects after the builder b has been written back through p's pointers.
Deref(objs, p) ==
    [p EXCEPT !.builder = objs.builder[p.builder],
              !.relatedData = objs.relatedData[p.relatedData]]
Store(objs, p, b) ==
    [objs EXCEPT !.builder[p.builder] = b.builder,
                 !.relatedData[p.relatedData] = b.relatedData]
Ptr(p, b) == [b EXCEPT !.builder = p.builder, !.relatedData = p.relatedData]

\* Mutant of NewMetricsBuilderAt: every builder points to the related data
\* made first.
NewMetricsBuilderSharedData(objs, rBuilder) ==
    LET b == NewMetricsBuilderWith(objs.builder[rBuilder], SortedMetrics, FALSE)
    IN  IF Len(objs.relatedData) = 0
        THEN [objs |-> [objs EXCEPT !.relatedData = Append(@, b.relatedData)],
              mb |-> [b EXCEPT !.builder = rBuilder, !.relatedData = 1]]
        ELSE [objs |-> objs,
              mb |-> [b EXCEPT !.builder = rBuilder, !.relatedData = 1]]

\* NewMetricsBuilder(rBuilder, cfg, stats) seen with its pointers: the struct
\* keeps the caller's rBuilder and points to the related data that this very
\* call made with NewRelatedData.
NewMetricsBuilderAt(objs, rBuilder) ==
    LET b == NewMetricsBuilderWith(objs.builder[rBuilder], SortedMetrics, FALSE)
        relatedData == Len(objs.relatedData) + 1
    IN  [objs |-> [objs EXCEPT !.relatedData = Append(@, b.relatedData)],
         mb |-> [b EXCEPT !.builder = rBuilder, !.relatedData = relatedData]]

\* Two record builders made by the caller, one for each MetricsBuilder.
InitTwo ==
    LET o0 == [builder |-> <<NewRecordBuilderExt, NewRecordBuilderExt>>,
               relatedData |-> <<>>]
        c1 == NewMetricsBuilderAt(o0, 1)
        c2 == NewMetricsBuilderAt(c1.objs, 2)
        twin == [mb |-> NewMetricsBuilder, res |-> NoResult]
    IN  /\ two = [objs |-> c2.objs,
                  mb |-> <<c1.mb, c2.mb>>,
                  res |-> <<NoResult, NoResult>>,
                  alone |-> <<twin, twin>>,
                  rows |-> <<0, 0>>]
        /\ BuilderIdle
        /\ ab = Idle /\ wide = Idle /\ ex = Idle /\ rx = Idle

\* The state after builder i made a call with outcome r (r.mb the builder by
\* value) while its twin made the same call with outcome t.
AfterCall(i, r, op, t, n) ==
    [two EXCEPT !.objs = Store(@, two.mb[i], r.mb),
                !.mb[i] = Ptr(@, r.mb),
                !.res[i] = Result(op, r.err, r.calls, r.record),
                !.alone[i] = [mb |-> t.mb, res |-> Result(op, t.err, t.calls, t.record)],
                !.rows[i] = @ + n]

WithRecord(r, rec) == [mb |-> r.mb, err |-> r.err, calls |-> r.calls, record |-> rec]

TwoAppend ==
    \E i \in Instances :
      \E n \in 0..(MaxPairRows - two.rows[i]) :
        \E metrics \in SeqsOfLen(PairRows, n) :
          /\ two' = AfterCall(i,
                        WithRecord(AppendCall(Deref(two.objs, two.mb[i]), metrics, <<>>), Null),
                        "Append",
                        WithRecord(AppendCall(two.alone[i].mb, metrics, <<>>), Null),
                        n)
          /\ UNCHANGED <<builderVars, ab, wide, ex, rx>>

TwoBuild ==
    \E i \in Instances, ok \in BOOLEAN :
        /\ two' = AfterCall(i, BuildCall(Deref(two.objs, two.mb[i]), ok), "Build",
                            BuildCall(two.alone[i].mb, ok), 0)
        /\ UNCHANGED <<builderVars, ab, wide, ex, rx>>

TwoRelease ==
    \E i \in Instances :
        LET r == ReleaseCall(Deref(two.objs, two.mb[i]))
            t == ReleaseCall(two.alone[i].mb)
        IN  /\ two' = AfterCall(i, [mb |-> r.mb, err |-> Nil, calls |-> r.calls, record |-> Null],
                                "Release",
                                [mb |-> t.mb, err |-> Nil, calls |-> t.calls, record |-> Null],
                                0)
            /\ UNCHANGED <<builderVars, ab, wide, ex, rx>>

NextTwo == TwoAppend \/ TwoBuild \/ TwoRelease

SpecTwo == InitTwo /\ [][NextTwo]_vars

\* C12: however the Append, Build and Release calls of two builders, each
\* made with its own record builder, interleave, each builder has the
\* released flag, the buffered rows with their ids, the ids minted by its
\* accumulators and the result of its last call that its twin run alone has.
C12_InstancesIndependent ==
    \A i \in Instances :
        /\ Deref(two.objs, two.mb[i]) = two.alone[i].mb
        /\ two.res[i] = two.alone[i].res

\* Both builders are open and hold a minted resource id; the last call of the
\* first was a Build that gave a record, the last call of the second an Append.
C12_Witness ==
    /\ two.rows = <<MaxPairRows, MaxPairRows>>
    /\ two.res[1].op = "Build" /\ two.res[1].record # Null
    /\ two.res[2].op = "Append"
    /\ two.objs.relatedData[two.mb[1].relatedData].resource # <<>>
    /\ two.objs.relatedData[two.mb[2].relatedData].resource # <<>>
    /\ ~two.mb[1].released /\ ~two.mb[2].released

----------------------------------------------------------------------------
(* A builder with schema statistics next to one without (SpecStats).  Both  *)
(* are made from the same cfg, ab.on with stats.SchemaStatsEnabled set and  *)
(* ab.off without, and both are given the same calls with the same inputs   *)
(* and the same collaborator failures.                                      *)

\* Rows the pair of builders is handed over its life.
MaxStatsRows == 2

StatsRows == PairRows \cup {InputRow(1, 2, HistogramMetric)}

InitStats ==
    /\ \E sorter \in Sorters :
          ab = [on |-> [mb |-> NewMetricsBuilderWith(NewRecordBuilderExt, sorter, TRUE),
                        res |-> NoResult],
                off |-> [mb |-> NewMetricsBuilderWith(NewRecordBuilderExt, sorter, FALSE),
                         res |-> NoResult],
                rows |-> 0]
    /\ BuilderIdle
    /\ two = Idle /\ wide = Idle /\ ex = Idle /\ rx = Idle

\* The builder and the outcome after a call with outcome r.
Called(op, r) == [mb |-> r.mb, res |-> Result(op, r.err, r.calls, r.record)]

StatsAppend ==
    \E n \in 0..(IF ab.on.mb.released THEN 1 ELSE MaxStatsRows - ab.rows) :
      \E metrics \in SeqsOfLen(StatsRows, n),
         fail \in (IF ab.on.mb.released THEN {<<>>} ELSE Fails(n)) :
        /\ ab' = [on |-> Called("Append", WithRecord(AppendCall(ab.on.mb, metrics, fail), Null)),
                  off |-> Called("Append", WithRecord(AppendCall(ab.off.mb, metrics, fail), Null)),
                  rows |-> IF ab.on.mb.released THEN ab.rows ELSE ab.rows + n]
        /\ UNCHANGED <<builderVars, two, wide, ex, rx>>

StatsBuild ==
    \E ok \in BOOLEAN :
        /\ ab' = [ab EXCEPT !.on = Called("Build", BuildCall(ab.on.mb, ok)),
                            !.off = Called("Build", BuildCall(ab.off.mb, ok))]
        /\ UNCHANGED <<builderVars, two, wide, ex, rx>>

StatsRelease ==
    LET r == ReleaseCall(ab.on.mb)
        t == ReleaseCall(ab.off.mb)
    IN  /\ ab' = [ab EXCEPT
                    !.on = Called("Release", [mb |-> r.mb, err |-> Nil,
                                              calls |-> r.calls, record |-> Null]),
                    !.off = Called("Release", [mb |-> t.mb, err |-> Nil,
                                               calls |-> t.calls, record |-> Null])]
        /\ UNCHANGED <<builderVars, two, wide, ex, rx>>

NextStats == StatsAppend \/ StatsBuild \/ StatsRelease

SpecStats == InitStats /\ [][NextStats]_vars

\* The calls on the analyzer, and the other calls.
IsAnalysis(e) == e.op \in {"Analyze", "ShowStats"}
NotAnalysis(e) == ~IsAnalysis(e)

\* C13: a builder with schema statistics and one without have the same
\* optimizer, and after the same calls they hold the same columns, the same
\* related data and the same released flag, and their last call returned the
\* same error and record after the same calls on the optimizer, the columns,
\* the accumulators and the record builder; the only difference is the
\* analyzer, which is handed the optimized batch whose rows the loop then
\* takes one by one.
C13_StatsOnlyObserve ==
    /\ ab.on.mb.optimizer = ab.off.mb.optimizer
    /\ ab.off.mb = [ab.on.mb EXCEPT !.analyzer = Null]
    /\ ab.off.res = [ab.on.res EXCEPT !.calls = SelectSeq(@, NotAnalysis)]
    /\ \A i \in 1..Len(ab.off.res.calls) : NotAnalysis(ab.off.res.calls[i])
    /\ LET cs == ab.on.res.calls
       IN  \A i \in 1..Len(cs) :
             /\ cs[i].op = "Analyze" =>
                  /\ i = 2 /\ cs[1].op = "Optimize" /\ cs[3].op = "ShowStats"
                  /\ \A j \in 1..Len(cs) :
                        cs[j].op = "range" => cs[j].val = cs[i].val[cs[j].row]
             /\ cs[i].op = "ShowStats" => i = 3 /\ cs[2].op = "Analyze"

\* The analyzer saw a batch of two rows of different resources, and both
\* builders buffered the two rows.
C13_Witness ==
    /\ ab.on.res.op = "Append"
    /\ \E i \in 1..Len(ab.on.res.calls) :
          /\ ab.on.res.calls[i].op = "Analyze"
          /\ Len(ab.on.res.calls[i].val) = 2
          /\ ab.on.res.calls[i].val[1].Resource # ab.on.res.calls[i].val[2].Resource
    /\ Len(ab.on.mb.builder.cols["ib"]) = 2
    /\ Len(ab.off.mb.builder.cols["ib"]) = 2
    /\ ab.on.mb.analyzer # Null /\ ab.off.mb.analyzer = Null

----------------------------------------------------------------------------
(* The file exporter factory (SpecExporters).  A configuration is a *Config *)
(* and is known by its pointer.  ex.exporters is the package's map of       *)
(* shared components, ex.fes the fileExporter objects made so far, in the   *)
(* order newFileExporter made them, ex.writers the writers buildFileWriter  *)
(* made, and ex.returned what the create functions returned.                *)

\* Calls of the create functions.
MaxCreates == 4

\* Config 1 has no Rotation, config 2 has one.
Configs == {1, 2}
HasRotation(cfg) == cfg = 2

ErrOpenFile == <<"ErrOpenFile">>

NoExporters ==
    [exporters |-> [cfg \in Configs |-> Null],
     fes |-> <<>>, writers |-> <<>>, returned |-> <<>>, err |-> Nil, creates |-> 0]

\* buildFileWriter: without Rotation the file is opened, and truncated, right
\* here, and that can fail; with Rotation a lumberjack.Logger is made, which
\* opens its file at the first write.  The writer is known by its position
\* in ex.writers.
buildFileWriter(e, cfg, ok) ==
    IF ~HasRotation(cfg) /\ ~ok
    THEN [ex |-> e, writer |-> Null, err |-> ErrOpenFile]
    ELSE [ex |-> [e EXCEPT !.writers = Append(@, [conf |-> cfg, opened |-> ~HasRotation(cfg)])],
          writer |-> Some(Len(e.writers) + 1), err |-> Nil]

\* newFileExporter: a new fileExporter holding the writer in its file field.
newFileExporter(e, conf, writer) ==
    [ex |-> [e EXCEPT !.fes = Append(@, [conf |-> conf, file |-> writer])],
     fe |-> Len(e.fes) + 1]

\* exporters.GetOrAdd(conf, create) with create the closure of the create
\* functions: the component stored for the key if there is one, else the one
\* newFileExporter makes, which is stored for the key.
GetOrAdd(e, conf, writer) ==
    IF e.exporters[conf] # Null
    THEN [ex |-> e, fe |-> e.exporters[conf][1]]
    ELSE LET c == newFileExporter(e, conf, writer)
         IN  [ex |-> [c.ex EXCEPT !.exporters[conf] = Some(c.fe)], fe |-> c.fe]

\* An exporter of a create function: its consume function is the method of
\* the fileExporter fe.
Exporter(kind, conf, fe) == [kind |-> kind, conf |-> conf, fe |-> fe]

Returned(e, exporter, err) ==
    [e EXCEPT !.returned = IF exporter = Null THEN @ ELSE Append(@, exporter[1]),
              !.err = err,
              !.creates = @ + 1]

\* The body the three create functions share: the writer is built first,
\* then the shared component is looked up or made.
CreateShared(e, kind, conf, ok) ==
    LET w == buildFileWriter(e, conf, ok)
    IN  IF w.err # Nil THEN Returned(w.ex, Null, w.err)
        ELSE LET g == GetOrAdd(w.ex, conf, w.writer[1])
             IN  Returned(g.ex, Some(Exporter(kind, conf, g.fe)), Nil)

\* Mutant of createMetricsExporter: the fileExporter is made without asking
\* the map.
createMetricsExporterOwn(e, conf, ok) ==
    LET w == buildFileWriter(e, conf, ok)
    IN  IF w.err # Nil THEN Returned(w.ex, Null, w.err)
        ELSE LET c == newFileExporter(w.ex, conf, w.writer[1])
             IN  Returned(c.ex, Some(Exporter("metrics", conf, c.fe)), Nil)

createTracesExporter(e, conf, ok) == CreateShared(e, "traces", conf, ok)
createMetricsExporter(e, conf, ok) == CreateShared(e, "metrics", conf, ok)
createLogsExporter(e, conf, ok) == CreateShared(e, "logs", conf, ok)

InitExporters ==
    /\ ex = NoExporters
    /\ BuilderIdle
    /\ two = Idle /\ ab = Idle /\ wide = Idle /\ rx = Idle

CreateTraces ==
    /\ ex.creates < MaxCreates
    /\ \E conf \in Configs, ok \in BOOLEAN : ex' = createTracesExporter(ex, conf, ok)
    /\ UNCHANGED <<builderVars, two, ab, wide, rx>>

CreateMetrics ==
    /\ ex.creates < MaxCreates
    /\ \E conf \in Configs, ok \in BOOLEAN : ex' = createMetricsExporter(ex, conf, ok)
    /\ UNCHANGED <<builderVars, two, ab, wide, rx>>

CreateLogs ==
    /\ ex.creates < MaxCreates
    /\ \E conf \in Configs, ok \in BOOLEAN : ex' = createLogsExporter(ex, conf, ok)
    /\ UNCHANGED <<builderVars, two, ab, wide, rx>>

NextExporters == CreateTraces \/ CreateMetrics \/ CreateLogs

SpecExporters == InitExporters /\ [][NextExporters]_vars

\* The fileExporters made for a configuration, and the writers opened for it.
FesOf(conf) == {f \in 1..Len(ex.fes) : ex.fes[f].conf = conf}
OpenedFor(conf) == {w \in 1..Len(ex.writers) : ex.writers[w].conf = conf /\ ex.writers[w].opened}

\* C14: whatever create calls were made, newFileExporter ran at most once for
\* a configuration, every exporter returned for a configuration uses that one
\* fileExporter, and exporters of different configurations use different
\* fileExporters.
C14_OneFileExporterPerConfig ==
    /\ \A conf \in Configs : Cardinality(FesOf(conf)) <= 1
    /\ \A i, j \in 1..Len(ex.returned) :
          (ex.returned[i].conf = ex.returned[j].conf)
              <=> (ex.returned[i].fe = ex.returned[j].fe)
    /\ \A i \in 1..Len(ex.returned) :
          /\ ex.returned[i].fe \in FesOf(ex.returned[i].conf)
          /\ ex.exporters[ex.returned[i].conf] = Some(ex.returned[i].fe)

\* Traces, metrics and logs exporters of one configuration and an exporter
\* of the other configuration were returned.
C14_Witness ==
    /\ \E i, j, k \in 1..Len(ex.returned) :
          /\ ex.returned[i].conf = 1 /\ ex.returned[i].kind = "traces"
          /\ ex.returned[j].conf = 1 /\ ex.returned[j].kind = "metrics"
          /\ ex.returned[k].conf = 1 /\ ex.returned[k].kind = "logs"
    /\ \E i \in 1..Len(ex.returned) : ex.returned[i].conf = 2

\* C19: for a configuration at most one file writer is opened for its path,
\* and every writer opened is the one the configuration's shared
\* fileExporter holds in its file field: none is opened and left unowned.
C19_OneWriterOwned ==
    \A conf \in Configs :
        /\ Cardinality(OpenedFor(conf)) <= 1
        /\ \A w \in OpenedFor(conf) : \E f \in FesOf(conf) : ex.fes[f].file = w

----------------------------------------------------------------------------
\* Rows of a built record whose id column holds id.
RowsWithId(rec, id) == {i \in 1..Len(rec["ib"]) : rec["ib"][i] = Some(id)}

\* C15: in the record a Build of an open builder returns, no two rows carry
\* the same id, whether one Append call or several appended them, and the
\* parent id stored with every accumulated data point is the id of exactly
\* one row of the record.
C15_ParentIdIdentifiesOneRow ==
    (lastOp = "Build" /\ record # Null) =>
        /\ \A i, j \in 1..Len(record[1]["ib"]) :
              i # j => record[1]["ib"][i] # record[1]["ib"][j]
        /\ \A t \in DPTables : \A e \in 1..Len(mb.relatedData[t]) :
              Cardinality(RowsWithId(record[1], mb.relatedData[t][e][1])) = 1

----------------------------------------------------------------------------
(* The builder handed groups of any id (SpecAnyIDs): as Spec, but the rows  *)
(* may belong to the resource or to the scope whose group id is the empty   *)
(* string.                                                                  *)

AnyIDRows ==
    {InputRow(p[1], p[2], GaugeMetric) :
        p \in {EmptyIDResource, 1} \X {EmptyIDScope, 1}}
      \cup {InputRow(EmptyIDResource, EmptyIDScope, SumMetric), InputRow(2, 1, SumMetric)}

AppendAnyIDs ==
    \E n \in 0..(IF mb.released THEN 1 ELSE MaxTotalRows - nrows) :
      \E metrics \in SeqsOfLen(AnyIDRows, n) :
        LET r == AppendCall(mb, metrics, <<>>)
        IN  /\ mb' = r.mb
            /\ lastOp' = "Append"
            /\ lastErr' = r.err
            /\ calls' = r.calls
            /\ record' = Null
            /\ nrows' = IF mb.released THEN nrows ELSE nrows + n
            /\ UNCHANGED <<two, ab, wide, ex, rx>>

NextAnyIDs == AppendAnyIDs \/ Build \/ Release

SpecAnyIDs == Init /\ [][NextAnyIDs]_vars

----------------------------------------------------------------------------
(* The trace receiver (SpecReceiver).  rx.calls holds every call the        *)
(* receiver made on r.obsrecv and on r.nextConsumer, in order; rx.last is   *)
(* the request and the return values of the last Export, with the position  *)
(* in rx.calls from which its own calls start.                              *)

\* Export calls, and the largest span count of a request.
MaxExports == 3
MaxSpans == 2

dataFormatProtobuf == "protobuf"
ErrConsume == <<"ErrConsume">>
NewExportResponse == [partialSuccess |-> Null]

\* What the next consumer may answer: nil or an error.
ConsumerErrs == {Nil, ErrConsume}

\* Receiver.Export for a request of numSpans spans whose ConsumeTraces, if it
\* is called, returns consumerErr.  ctx is the context StartTracesOp returns.
ExportWith(r, numSpans, consumerErr, endsOp) ==
    IF numSpans = 0
    THEN [calls |-> r.calls, resp |-> NewExportResponse, err |-> Nil]
    ELSE LET ctx == "StartTracesOp(ctx)"
             started == Append(r.calls, [op |-> "StartTracesOp", ctx |-> "ctx"])
             err == consumerErr
             consumed == Append(started, [op |-> "ConsumeTraces", ctx |-> ctx,
                                          td |-> numSpans])
             ended == IF endsOp
                      THEN Append(consumed, [op |-> "EndTracesOp", ctx |-> ctx,
                                             format |-> dataFormatProtobuf,
                                             numSpans |-> numSpans, err |-> err])
                      ELSE consumed
         IN  [calls |-> ended, resp |-> NewExportResponse, err |-> err]

\* Mutant of Export: the operation is ended only when the consumer succeeded.
ExportEndsOnSuccess(r, numSpans, consumerErr) ==
    ExportWith(r, numSpans, consumerErr, consumerErr = Nil)

\* Lines 207-220.
Export(r, numSpans, consumerErr) == ExportWith(r, numSpans, consumerErr, TRUE)

\* trace.New: nothing called yet.
InitReceiver ==
    /\ rx = [calls |-> <<>>, exports |-> 0,
             last |-> [numSpans |-> 0, consumerErr |-> Nil, first |-> 1,
                       resp |-> Null, err |-> Nil]]
    /\ BuilderIdle
    /\ two = Idle /\ ab = Idle /\ wide = Idle /\ ex = Idle

ReceiverExport ==
    /\ rx.exports < MaxExports
    /\ \E numSpans \in 0..MaxSpans, consumerErr \in ConsumerErrs :
          LET r == Export(rx, numSpans, consumerErr)
          IN  rx' = [calls |-> r.calls, exports |-> rx.exports + 1,
                     last |-> [numSpans |-> numSpans, consumerErr |-> consumerErr,
                               first |-> Len(rx.calls) + 1,
                               resp |-> Some(r.resp), err |-> r.err]]
    /\ UNCHANGED <<builderVars, two, ab, wide, ex>>

NextReceiver == ReceiverExport

SpecReceiver == InitReceiver /\ [][NextReceiver]_vars

\* The calls the last Export made.
LastExportCalls == SubSeq(rx.calls, rx.last.first, Len(rx.calls))

\* C17: an Export of a request without spans calls neither StartTracesOp nor
\* ConsumeTraces nor EndTracesOp and returns an empty response and nil; an
\* Export of a request with spans calls StartTracesOp, then ConsumeTraces
\* once, then EndTracesOp once, EndTracesOp is given the span count and the
\* consumer's error, failed or not, and Export returns the empty response and
\* exactly the consumer's error.
C17_ExportBracketsConsume ==
    rx.exports > 0 =>
        LET cs == LastExportCalls
        IN  /\ rx.last.resp = Some(NewExportResponse)
            /\ rx.last.numSpans = 0 => cs = <<>> /\ rx.last.err = Nil
            /\ rx.last.numSpans > 0 =>
                  /\ Len(cs) = 3
                  /\ cs[1].op = "StartTracesOp"
                  /\ cs[2].op = "ConsumeTraces" /\ cs[2].td = rx.last.numSpans
                  /\ cs[3].op = "EndTracesOp"
                  /\ cs[3].numSpans = rx.last.numSpans
                  /\ cs[3].format = dataFormatProtobuf
                  /\ cs[3].err = rx.last.consumerErr
                  /\ cs[2].ctx = "StartTracesOp(ctx)" /\ cs[3].ctx = cs[2].ctx
                  /\ rx.last.err = rx.last.consumerErr

\* The consumer failed on a request with spans, after an Export of a request
\* without spans that called nothing.
C17_Witness ==
    /\ rx.exports = 2
    /\ rx.last.numSpans = MaxSpans
    /\ rx.last.consumerErr = ErrConsume
    /\ rx.last.err = ErrConsume
    /\ rx.last.first = 1
    /\ Len(rx.calls) = 3

----------------------------------------------------------------------------
(* The loop of one Append over a long batch (SpecWide), one row per step.   *)
(* Only the id of a row is followed: wide.k rows are emitted so far,        *)
(* wide.ID is the id appended for the last of them, wide.prevID the id of   *)
(* the row before it, wide.firstID the id of the first row and              *)
(* wide.metricID the local of line 165.                                     *)

\* Rows of the optimized batch.
MaxWideRows == 65537

InitWide ==
    /\ wide = [k |-> 0, metricID |-> 0, ID |-> 0, prevID |-> 0, firstID |-> 0]
    /\ BuilderIdle
    /\ two = Idle /\ ab = Idle /\ ex = Idle /\ rx = Idle

\* Lines 172-176 for the next metric of the range: the id column of a builder
\* that holds no row yet shows the value appended.
WideRow ==
    /\ wide.k < MaxWideRows
    /\ LET st == [mb |-> NewMetricsBuilder, metricID |-> wide.metricID,
                  ID |-> wide.ID, calls |-> <<>>]
           s1 == IDStep(st, wide.k + 1)
           appended == s1.mb.builder.cols["ib"][1][1]
       IN  wide' = [k |-> wide.k + 1,
                    metricID |-> s1.metricID,
                    ID |-> appended,
                    prevID |-> wide.ID,
                    firstID |-> IF wide.k = 0 THEN appended ELSE wide.firstID]
    /\ UNCHANGED <<builderVars, two, ab, ex, rx>>

NextWide == WideRow

SpecWide == InitWide /\ [][NextWide]_vars

\* C18: in one Append call the k-th row, counted from 0, gets the id
\* k mod 2^16, and whatever the length of the batch the ids of the call are
\* pairwise distinct (here: no later row has the id of the first) and the
\* ids of two consecutive rows differ by exactly 1.
C18_IdsDistinctAndConsecutive ==
    /\ wide.k >= 1 => wide.ID = (wide.k - 1) % Uint16
    /\ wide.k >= 2 => wide.ID # wide.firstID
    /\ wide.k >= 2 => wide.ID - wide.prevID = 1

====
